---- MODULE Spec2Model ----
(***************************************************************************)
(* A model of the URL shortener: the Base62 codec and the Snowflake        *)
(* generator (app/core/id_generator.py), the worker-ID lease manager       *)
(* (app/core/worker_id.py) and the shorten / redirect handlers             *)
(* (app/api/endpoints.py) over the Redis cache (app/core/redis_client.py). *)
(*                                                                         *)
(* Time.  TLC's integers are 32 bits wide and EPOCH = 1704067200000 does   *)
(* not fit, so every timestamp of the model is measured in milliseconds    *)
(* SINCE EPOCH: a clock reading c stands for the wall-clock value          *)
(* EPOCH + c, `timestamp - EPOCH` of the code is the model's timestamp     *)
(* itself, and parse_id's `... + EPOCH` is the model's timestamp again.    *)
(* The constructor's last_timestamp = -1 lies below every clock reading    *)
(* in both scales, and it is only ever compared with clock readings.       *)
(***************************************************************************)
EXTENDS Integers, Sequences, FiniteSets, TLC

(***************************************************************************)
(* Bounds of the model.                                                    *)
(***************************************************************************)
\* clock readings of the generator specifications are EPOCH + 0..MaxClock
MaxClock == 2
\* generate() calls per generator in the two-generator specification
MaxCalls == 3
\* processes sharing the KV store
NumProcs == 3
\* HTTP requests served in one behaviour
MaxReqs == 2
\* messages published to the queue in one behaviour
MaxEvents == 4
\* stops (and restarts) of the consumer process in one behaviour
MaxStops == 1
\* the integers 0..MaxNum and the strings of up to MaxLen symbols are encoded
\* and decoded
MaxNum == 130
MaxLen == 3

\* settings.MAX_WORKER_ID of the configuration the lease model runs: candidates
\* 0..SETTINGS_MAX_WORKER_ID (read from the environment; the default is 1023)
SETTINGS_MAX_WORKER_ID == 1

(***************************************************************************)
(* Time in the lease model passes in ticks of 30 seconds, in which the     *)
(* defaults of app/core/setting.py are 2 ticks (WORKER_ID_LEASE_TTL = 60)  *)
(* and 1 tick (WORKER_ID_RENEWAL_INTERVAL = 30).                           *)
(***************************************************************************)
WORKER_ID_LEASE_TTL == 2
WORKER_ID_RENEWAL_INTERVAL == 1

VARIABLES
    gen,        \* generator g -> [worker_id, sequence, last_timestamp]
    gpc,        \* generator g -> "idle" | "spin" (inside _wait_next_millisecond)
    out,        \* generator g -> outcome of its latest generate() call
    lastId,     \* generator g -> the ID it returned most recently (-1: none yet)
    sameMs,     \* generator g -> number of IDs returned with timestamp last_timestamp
    issued,     \* generator g -> the IDs it has returned (two-generator specification)
    calls,      \* generator g -> generate() calls made (two-generator specification)
    lease,      \* KV store: n -> remaining TTL of key worker_id:lease:{n} (0: absent)
    wpc,        \* process p -> state of its WorkerIDManager and of the process
    held_id,    \* process p -> WorkerIDManager.worker_id (-1: None)
    cand,       \* process p -> candidate_id of the acquire loop
    rtask,      \* process p -> state of its renewal task
    timer,      \* process p -> time left of the renewal task's sleep
    owner,      \* worker ID n -> the process whose SET created the key now there (0: no key)
    id_generator,   \* id_service.id_generator: the serving process's generator
    db,         \* relational store: the rows of table ShortURL
    cache,      \* KV store: the entries short_url:{code} -> url with their TTL
    req,        \* request r (in order of arrival) -> its handler's state and reply
    publisher,  \* analytics.analytics_publisher: "none" (None) | "ready"
    tasks,      \* requests whose detached publish_click_event task is pending
    bus,        \* requests whose click event was enqueued on the exchange
    queue,      \* the messages of queue click_events, oldest first
    published,  \* the messages that were published to the queue
    cpc,        \* the consumer: "wait" | "insert" | "ack" | "exited"
    cur,        \* the message the consumer is processing, NoMessage if none
    click_events,   \* table click_events: message -> the number of its rows
    acked,      \* the messages the consumer acknowledged
    rejected,   \* the messages the consumer rejected without requeue
    stops,      \* how many times the consumer process was stopped
    redelivered,    \* the messages the broker requeued when the consumer stopped
    released_again, \* process p -> release_worker_id was called after its first call
    closed,     \* process p -> the singletons shutdown_event closed after the release
    codec       \* a Base62 computation: its input and its intermediate results

genVars == <<gen, gpc, out, lastId, sameMs, issued, calls>>
leaseVars == <<lease, wpc, held_id, cand, rtask, timer, owner>>
httpVars == <<id_generator, db, cache, req, publisher, tasks, bus>>
consVars ==
    <<queue, published, cpc, cur, click_events, acked, rejected, stops, redelivered>>
lifeVars == <<released_again, closed>>
codecVars == <<codec>>
vars == <<genVars, leaseVars, httpVars, consVars, lifeVars, codecVars>>

(***************************************************************************)
(* Python's integer operators on non-negative integers.                    *)
(***************************************************************************)
RECURSIVE Pow2(_)
Pow2(k) == IF k = 0 THEN 1 ELSE 2 * Pow2(k - 1)

\* a << k
ShiftLeft(a, k) == a * Pow2(k)

\* a >> k
ShiftRight(a, k) == a \div Pow2(k)

\* a & b
RECURSIVE BitAnd(_, _)
BitAnd(a, b) ==
    IF a = 0 \/ b = 0 THEN 0
    ELSE (a % 2) * (b % 2) + 2 * BitAnd(a \div 2, b \div 2)

\* a | b
RECURSIVE BitOr(_, _)
BitOr(a, b) ==
    IF a = 0 THEN b
    ELSE IF b = 0 THEN a
    ELSE (IF a % 2 = 1 \/ b % 2 = 1 THEN 1 ELSE 0) + 2 * BitOr(a \div 2, b \div 2)

\* int.bit_length()
RECURSIVE BitLength(_)
BitLength(a) == IF a = 0 THEN 0 ELSE 1 + BitLength(a \div 2)

(***************************************************************************)
(* Base62 codec.  A string is a sequence of one-character strings.         *)
(***************************************************************************)
BASE62_CHARS ==
    << "0", "1", "2", "3", "4", "5", "6", "7", "8", "9",
       "a", "b", "c", "d", "e", "f", "g", "h", "i", "j", "k", "l", "m",
       "n", "o", "p", "q", "r", "s", "t", "u", "v", "w", "x", "y", "z",
       "A", "B", "C", "D", "E", "F", "G", "H", "I", "J", "K", "L", "M",
       "N", "O", "P", "Q", "R", "S", "T", "U", "V", "W", "X", "Y", "Z" >>

\* reversed(encoded)
RECURSIVE Reversed(_)
Reversed(s) == IF s = <<>> THEN <<>> ELSE Append(Reversed(Tail(s)), Head(s))

\* the while loop of base62_encode: least-significant symbol first
RECURSIVE EncodeLoop(_, _)
EncodeLoop(num, encoded) ==
    IF num > 0
    THEN EncodeLoop(num \div 62, Append(encoded, BASE62_CHARS[(num % 62) + 1]))
    ELSE encoded

\* base62_encode without the reversal
base62_encode_NoReverse(num) ==
    IF num = 0 THEN << BASE62_CHARS[1] >>
    ELSE EncodeLoop(num, <<>>)

base62_encode(num) ==
    IF num = 0 THEN << BASE62_CHARS[1] >>
    ELSE Reversed(EncodeLoop(num, <<>>))

\* BASE62_CHARS.index(char)
CharIndex(char) == (CHOOSE i \in 1..Len(BASE62_CHARS) : BASE62_CHARS[i] = char) - 1

RECURSIVE DecodeLoop(_, _)
DecodeLoop(encoded, num) ==
    IF encoded = <<>> THEN num
    ELSE DecodeLoop(Tail(encoded), num * 62 + CharIndex(Head(encoded)))

\* base62_decode reading the least significant symbol first
base62_decode_LittleEndian(encoded) == DecodeLoop(Reversed(encoded), 0)

base62_decode(encoded) == DecodeLoop(encoded, 0)

\* the integers given to base62_encode: a range from 0 and the values around
\* the powers of 62, up to the largest integer of the checker
Numbers ==
    (0..MaxNum) \cup {3843, 3844, 238327, 238328, 14776335, 14776336,
                      916132831, 916132832, 2147483647}

\* symbols from both ends of the three runs of the alphabet
SampleChars == {"0", "1", "9", "a", "z", "A", "Z"}

RECURSIVE StringsOfLen(_)
StringsOfLen(k) ==
    IF k = 0 THEN {<<>>}
    ELSE {Append(s, c) : s \in StringsOfLen(k - 1), c \in SampleChars}

\* the strings given to base62_decode: the empty string, every symbol of the
\* alphabet alone, and the strings of up to MaxLen sample symbols
Strings ==
    {<<BASE62_CHARS[i]>> : i \in 1..62} \cup UNION {StringsOfLen(k) : k \in 0..MaxLen}

\* a numeral without a leading zero symbol, or the zero symbol alone
Canonical(s) == s # <<>> /\ (s[1] = BASE62_CHARS[1] => Len(s) = 1)

CodecIdle ==
    codec = [op |-> "none", step |-> 0, in_num |-> 0, in_str |-> <<>>,
             num |-> 0, str |-> <<>>]

\* a computation to run: encode then decode a number, or decode then encode
\* a string
CodecInit ==
    \/ \E n \in Numbers :
         codec = [op |-> "encode", step |-> 0, in_num |-> n, in_str |-> <<>>,
                  num |-> n, str |-> <<>>]
    \/ \E s \in Strings :
         codec = [op |-> "decode", step |-> 0, in_num |-> 0, in_str |-> s,
                  num |-> 0, str |-> s]

\* base62_encode is applied to the current number
EncodeCall ==
    /\ \/ codec.op = "encode" /\ codec.step = 0
       \/ codec.op = "decode" /\ codec.step = 1
    /\ codec' = [codec EXCEPT !.str = base62_encode(codec.num), !.step = @ + 1]

\* base62_decode is applied to the current string
DecodeCall ==
    /\ \/ codec.op = "decode" /\ codec.step = 0
       \/ codec.op = "encode" /\ codec.step = 1
    /\ codec' = [codec EXCEPT !.num = base62_decode(codec.str), !.step = @ + 1]

CodecNext ==
    \/ EncodeCall /\ UNCHANGED <<genVars, leaseVars, httpVars, consVars, lifeVars>>
    \/ DecodeCall /\ UNCHANGED <<genVars, leaseVars, httpVars, consVars, lifeVars>>

(***************************************************************************)
(* Snowflake generator.                                                    *)
(***************************************************************************)
TIMESTAMP_BITS == 41
WORKER_ID_BITS == 10
SEQUENCE_BITS == 12

MAX_WORKER_ID == ShiftLeft(1, WORKER_ID_BITS) - 1
MAX_SEQUENCE == ShiftLeft(1, SEQUENCE_BITS) - 1

Gens == 1..2

\* the values _current_timestamp() can return, in milliseconds since EPOCH
Clock == 0..MaxClock

\* worker IDs the generators are constructed with (all pass __init__'s range check)
WorkerIdSamples == {0, 1, MAX_WORKER_ID}

\* SnowflakeIDGenerator.__init__
NewGenerator(worker_id) ==
    [worker_id |-> worker_id, sequence |-> 0, last_timestamp |-> -1]

\* mutant: the worker ID shifted by its own width instead of the sequence's
BuildId_WorkerShift(timestamp, worker_id, sequence) ==
    BitOr(BitOr(ShiftLeft(timestamp, WORKER_ID_BITS + SEQUENCE_BITS),
                ShiftLeft(worker_id, WORKER_ID_BITS)),
          sequence)

\* mutant: the worker ID left out of the ID
BuildId_NoWorker(timestamp, worker_id, sequence) ==
    BitOr(ShiftLeft(timestamp, WORKER_ID_BITS + SEQUENCE_BITS), sequence)

\* generate(), lines 130-135: the ID assembled from the timestamp (since EPOCH),
\* the worker ID and the sequence
BuildId(timestamp, worker_id, sequence) ==
    BitOr(BitOr(ShiftLeft(timestamp, WORKER_ID_BITS + SEQUENCE_BITS),
                ShiftLeft(worker_id, SEQUENCE_BITS)),
          sequence)

\* SnowflakeIDGenerator.parse_id (timestamp in milliseconds since EPOCH)
parse_id(id_value) ==
    [timestamp |-> ShiftRight(id_value, WORKER_ID_BITS + SEQUENCE_BITS),
     worker_id |-> BitAnd(ShiftRight(id_value, SEQUENCE_BITS), MAX_WORKER_ID),
     sequence  |-> BitAnd(id_value, MAX_SEQUENCE)]

\* mutant: the sequence incremented without the mask
NextSequence_NoMask(sequence) == sequence + 1

\* generate(), line 115: the sequence of a call in the millisecond of the last one
NextSequence(sequence) == BitAnd(sequence + 1, MAX_SEQUENCE)

\* generate(), lines 128-137: commit last_timestamp and return the ID
Commit(g, timestamp, sequence, waited) ==
    [status |-> "ok",
     gen    |-> [g EXCEPT !.sequence = sequence, !.last_timestamp = timestamp],
     id     |-> BuildId(timestamp, g.worker_id, sequence),
     delta  |-> 0,
     waited |-> waited]

\* mutant: no check for a clock that moved backwards
Generate_NoRegressCheck(g, timestamp) ==
    IF timestamp = g.last_timestamp
    THEN IF NextSequence(g.sequence) = 0
         THEN [status |-> "spin", gen |-> [g EXCEPT !.sequence = 0], id |-> -1,
               delta |-> 0, waited |-> TRUE]
         ELSE Commit(g, timestamp, NextSequence(g.sequence), FALSE)
    ELSE Commit(g, timestamp, 0, FALSE)

\* mutant: the clock value is committed before the regression check raises
Generate_RegressCommits(g, timestamp) ==
    IF timestamp < g.last_timestamp
    THEN [status |-> "regress", gen |-> [g EXCEPT !.last_timestamp = timestamp],
          id |-> -1, delta |-> g.last_timestamp - timestamp, waited |-> FALSE]
    ELSE IF timestamp = g.last_timestamp
    THEN IF NextSequence(g.sequence) = 0
         THEN [status |-> "spin", gen |-> [g EXCEPT !.sequence = 0], id |-> -1,
               delta |-> 0, waited |-> TRUE]
         ELSE Commit(g, timestamp, NextSequence(g.sequence), FALSE)
    ELSE Commit(g, timestamp, 0, FALSE)

\* generate() on generator state g when _current_timestamp() returns timestamp:
\* "ok" (an ID is returned), "regress" (RuntimeError, nothing changed) or "spin"
\* (sequence wrapped to 0; the call is inside _wait_next_millisecond)
Generate(g, timestamp) ==
    IF timestamp < g.last_timestamp
    THEN [status |-> "regress", gen |-> g, id |-> -1,
          delta |-> g.last_timestamp - timestamp, waited |-> FALSE]
    ELSE IF timestamp = g.last_timestamp
    THEN IF NextSequence(g.sequence) = 0
         THEN [status |-> "spin", gen |-> [g EXCEPT !.sequence = 0], id |-> -1,
               delta |-> 0, waited |-> TRUE]
         ELSE Commit(g, timestamp, NextSequence(g.sequence), FALSE)
    ELSE Commit(g, timestamp, 0, FALSE)

\* one clock reading of _wait_next_millisecond(last_timestamp): the loop goes on
\* while timestamp <= last_timestamp, and generate() resumes at line 128 after it
WaitNextMillisecond(g, timestamp) ==
    IF timestamp <= g.last_timestamp
    THEN [status |-> "spin", gen |-> g, id |-> -1, delta |-> 0, waited |-> TRUE]
    ELSE Commit(g, timestamp, g.sequence, TRUE)

\* no call yet; `turn` flips at every step of a call, so that a call that returns
\* what the previous one returned is still a step
NoOutcome == [status |-> "none", id |-> -1, delta |-> 0, waited |-> FALSE, turn |-> 0]

Outcome(r, turn) ==
    [status |-> r.status, id |-> r.id, delta |-> r.delta, waited |-> r.waited,
     turn |-> 1 - turn]

\* bookkeeping of one step of a generate() call whose result so far is r
GenApply(i, r) ==
    /\ gen' = [gen EXCEPT ![i] = r.gen]
    /\ gpc' = [gpc EXCEPT ![i] = IF r.status = "spin" THEN "spin" ELSE "idle"]
    /\ out' = [out EXCEPT ![i] = Outcome(r, @.turn)]
    /\ lastId' = [lastId EXCEPT ![i] = IF r.status = "ok" THEN r.id ELSE @]
    /\ sameMs' = [sameMs EXCEPT ![i] =
                    IF r.status # "ok" THEN @
                    ELSE IF r.gen.last_timestamp = gen[i].last_timestamp THEN @ + 1
                    ELSE 1]

\* a generate() call on generator i reading the clock value timestamp
GenerateCall(i, timestamp) ==
    /\ gpc[i] = "idle"
    /\ GenApply(i, Generate(gen[i], timestamp))

\* one more clock reading of a call that is inside _wait_next_millisecond
WaitRead(i, timestamp) ==
    /\ gpc[i] = "spin"
    /\ GenApply(i, WaitNextMillisecond(gen[i], timestamp))

(***************************************************************************)
(* The front end: POST /shorten and GET /{short_code} (api/endpoints.py)   *)
(* of one serving process, over the relational store, the cache            *)
(* (RedisCache) and the analytics publisher.  A handler runs from one      *)
(* await to the next in one step; requests interleave at their awaits.     *)
(***************************************************************************)
Reqs == 1..MaxReqs

\* RedisCache.DEFAULT_TTL
DEFAULT_TTL == 86400

\* a URL as a client writes it, in its parts: what stands before "://", the
\* host, and the rest.  A text without "://" has no scheme and no host.
Written(scheme, host, path) == [scheme |-> scheme, host |-> host, path |-> path]

\* the field original_url is not in the JSON object
Missing == Written("", "", "")

\* the values of original_url sent to POST /shorten
SubmittedUrls ==
    {Written("https", "example.com", "/a"), Written("https", "example.com", ""),
     Written("ftp", "example.com", "/a"), Written("https", "", "/a"),
     Written("", "", "not-a-valid-url"), Missing}

\* the text of a submitted URL
TextOf(u) == IF u.scheme = "" THEN u.path ELSE u.scheme \o "://" \o u.host \o u.path

\* ShortenRequest.original_url: HttpUrl accepts the schemes http and https
\* with a host
ValidHttpUrl(u) == u.scheme \in {"http", "https"} /\ u.host # ""

\* str(url_to_shorten) of a validated HttpUrl: the URL is rendered from its
\* parts, and an empty path is rendered as "/"
HttpUrlStr(u) == u.scheme \o "://" \o u.host \o (IF u.path = "" THEN "/" ELSE u.path)

\* the bodies sent to POST /shorten: none, one that is not JSON, and a JSON
\* object with or without the field original_url
ShortenBodies ==
    {[kind |-> "absent", original_url |-> Missing],
     [kind |-> "malformed", original_url |-> Missing]}
        \cup {[kind |-> "json", original_url |-> u] : u \in SubmittedUrls}

\* the parameter `request: ShortenRequest = None` and lines 41-42: without a
\* body the handler gets None and raises HTTPException(400); a body that is
\* not a valid ShortenRequest is answered 422 before the handler runs
Validate(body) ==
    IF body.kind = "absent" THEN 400
    ELSE IF body.kind = "json" /\ ValidHttpUrl(body.original_url) THEN 200
    ELSE 422

\* the URLs of the records: the renderings of the valid submitted URLs
Urls == {HttpUrlStr(u) : u \in {v \in SubmittedUrls : ValidHttpUrl(v)}}

\* settings.BASE_URL
BASE_URL ==
    <<"h", "t", "t", "p", ":", "/", "/", "l", "o", "c", "a", "l", "h", "o", "s", "t",
      ":", "8", "0", "0", "0">>

\* str.rstrip('/')
RECURSIVE RStripSlash(_)
RStripSlash(str) ==
    IF str # <<>> /\ str[Len(str)] = "/"
    THEN RStripSlash(SubSeq(str, 1, Len(str) - 1))
    ELSE str

\* the body of a reply that has none
NoBody == [short_code |-> <<>>, short_url |-> <<>>, original_url |-> ""]

\* the clock values generate() reads while requests are served (since EPOCH)
HttpClock == {0, 1}

\* the worker ID the serving process acquired at startup
HttpWorkerIds == {0, 1}

\* a short code no record has
UnknownCode == <<"n", "o", "p", "e">>

NoRequest ==
    [kind |-> "none", pc |-> "new", url |-> "", code |-> <<>>, sid |-> -1,
     got |-> "", status |-> 0, location |-> "", dbReads |-> 0, busWaits |-> 0,
     sent |-> "", body |-> NoBody]

\* mutant: generate() returning its ID without keeping the state it computed
GenerateSync_NoCommit(g, timestamp) ==
    LET r == Generate(g, timestamp) IN [r EXCEPT !.gen = g]

\* generate() as one call: a wrapped sequence waits, in _wait_next_millisecond,
\* for the first millisecond after last_timestamp
GenerateSync(g, timestamp) ==
    LET r == Generate(g, timestamp) IN
    IF r.status = "spin"
    THEN WaitNextMillisecond(r.gen, r.gen.last_timestamp + 1)
    ELSE r

\* redis GET short_url:{code}: the cached URL, "" for None
CacheGet(store, code) ==
    IF \E e \in store : e.code = code
    THEN (CHOOSE e \in store : e.code = code).url
    ELSE ""

\* RedisCache.set: SETEX short_url:{code} ttl original_url, ttl = ttl or DEFAULT_TTL
CacheSet(store, code, original_url) ==
    {e \in store : e.code # code}
        \cup {[code |-> code, url |-> original_url, ttl |-> DEFAULT_TTL]}

\* select(ShortURL).where(ShortURL.short_code == short_code)
SelectByCode(table, code) == {row \in table : row.short_code = code}

\* the primary key on snowflake_id and the unique index on short_code
Conflicts(table, row) ==
    \E other \in table :
        \/ other.snowflake_id = row.snowflake_id
        \/ other.short_code = row.short_code

\* the codes a GET may ask for: those of the records, those cached, an unknown one
KnownCodes == {row.short_code : row \in db} \cup {e.code : e \in cache} \cup {UnknownCode}

\* requests are numbered in the order they arrive
Arrives(r) ==
    /\ req[r].pc = "new"
    /\ \A q \in Reqs : q < r => req[q].pc # "new"

Reply(r, status, location) ==
    [req[r] EXCEPT !.pc = "done", !.status = status, !.location = location]

HttpIdle ==
    /\ id_generator = NewGenerator(0)
    /\ db = {}
    /\ cache = {}
    /\ req = [r \in Reqs |-> NoRequest]
    /\ publisher = "none"
    /\ tasks = {}
    /\ bus = {}

\* after startup_event: the generator holds the acquired worker ID, and
\* get_analytics_publisher() has connected or has failed and left None
HttpInit ==
    /\ \E w \in HttpWorkerIds : id_generator = NewGenerator(w)
    /\ db = {}
    /\ cache = {}
    /\ req = [r \in Reqs |-> NoRequest]
    /\ publisher \in {"none", "ready"}
    /\ tasks = {}
    /\ bus = {}

\* create_short_url up to line 59: the body is validated; then snowflake_id =
\* generate(), short_code = generate_short_code() (a second generate()), the
\* record is built and added to the session.  A RuntimeError of generate()
\* ends the request with 500.
ShortenStart(r, body, t1, t2) ==
    /\ Arrives(r)
    /\ LET g1 == GenerateSync(id_generator, t1)
           g2 == GenerateSync(g1.gen, t2)
           sent == TextOf(body.original_url)
           url == HttpUrlStr(body.original_url)
       IN
       IF Validate(body) # 200
       THEN /\ UNCHANGED id_generator
            /\ req' = [req EXCEPT ![r] =
                         [Reply(r, Validate(body), "") EXCEPT
                             !.kind = "shorten", !.sent = sent]]
       ELSE IF g1.status # "ok"
       THEN /\ id_generator' = g1.gen
            /\ req' = [req EXCEPT ![r] =
                         [Reply(r, 500, "") EXCEPT
                             !.kind = "shorten", !.url = url, !.sent = sent]]
       ELSE IF g2.status # "ok"
       THEN /\ id_generator' = g2.gen
            /\ req' = [req EXCEPT ![r] =
                         [Reply(r, 500, "") EXCEPT
                             !.kind = "shorten", !.url = url, !.sent = sent]]
       ELSE /\ id_generator' = g2.gen
            /\ req' = [req EXCEPT ![r] =
                         [@ EXCEPT !.kind = "shorten", !.pc = "commit", !.url = url,
                                   !.sent = sent,
                                   !.sid = g1.id, !.code = base62_encode(g2.id)]]
    /\ UNCHANGED <<db, cache, publisher, tasks, bus>>

\* ShortenCommit going on to the cache priming without the insert
ShortenCommit_NoInsert(r) ==
    /\ req[r].kind = "shorten"
    /\ req[r].pc = "commit"
    /\ req' = [req EXCEPT ![r].pc = "prime"]
    /\ UNCHANGED <<id_generator, db, cache, publisher, tasks, bus>>

\* mutant: a conflicting insert replaces the records it conflicts with
ShortenCommit_Upserts(r) ==
    /\ req[r].kind = "shorten"
    /\ req[r].pc = "commit"
    /\ LET row == [snowflake_id |-> req[r].sid, original_url |-> req[r].url,
                   short_code |-> req[r].code]
       IN
       /\ db' = {other \in db : other.snowflake_id # row.snowflake_id
                                  /\ other.short_code # row.short_code} \cup {row}
       /\ req' = [req EXCEPT ![r].pc = "prime"]
    /\ UNCHANGED <<id_generator, cache, publisher, tasks, bus>>

\* create_short_url, lines 60-61: commit (and refresh).  A violation of the
\* primary key or of the unique index raises and ends the request with 500.
ShortenCommit(r) ==
    /\ req[r].kind = "shorten"
    /\ req[r].pc = "commit"
    /\ LET row == [snowflake_id |-> req[r].sid, original_url |-> req[r].url,
                   short_code |-> req[r].code]
       IN
       IF Conflicts(db, row)
       THEN /\ req' = [req EXCEPT ![r] = Reply(r, 500, "")]
            /\ UNCHANGED db
       ELSE /\ db' = db \cup {row}
            /\ req' = [req EXCEPT ![r].pc = "prime"]
    /\ UNCHANGED <<id_generator, cache, publisher, tasks, bus>>

\* mutant: the 200 reply sent without the cache write
ShortenPrime_NoWrite(r) ==
    /\ req[r].kind = "shorten"
    /\ req[r].pc = "prime"
    /\ req' = [req EXCEPT ![r] =
                 [Reply(r, 200, "") EXCEPT !.body =
                     [short_code |-> req[r].code,
                      short_url |-> RStripSlash(BASE_URL) \o <<"/">> \o req[r].code,
                      original_url |-> req[r].url]]]
    /\ UNCHANGED <<id_generator, db, cache, publisher, tasks, bus>>

\* create_short_url, lines 63-75: cache.set, then the 200 reply with the triple
ShortenPrime(r) ==
    /\ req[r].kind = "shorten"
    /\ req[r].pc = "prime"
    /\ cache' = CacheSet(cache, req[r].code, req[r].url)
    /\ req' = [req EXCEPT ![r] =
                 [Reply(r, 200, "") EXCEPT !.body =
                     [short_code |-> req[r].code,
                      short_url |-> RStripSlash(BASE_URL) \o <<"/">> \o req[r].code,
                      original_url |-> req[r].url]]]
    /\ UNCHANGED <<id_generator, db, publisher, tasks, bus>>

\* create_short_url, line 66: the SETEX raises (KV store unreachable); nothing
\* catches it and the request ends with 500
ShortenPrimeFails(r) ==
    /\ req[r].kind = "shorten"
    /\ req[r].pc = "prime"
    /\ req' = [req EXCEPT ![r] = Reply(r, 500, "")]
    /\ UNCHANGED <<id_generator, db, cache, publisher, tasks, bus>>

\* RedirectGet going on to the database whatever the cache returned
RedirectGet_ReadsThrough(r, code) ==
    /\ Arrives(r)
    /\ LET url == CacheGet(cache, code) IN
       req' = [req EXCEPT ![r] =
                 [@ EXCEPT !.kind = "redirect", !.code = code, !.got = url,
                           !.url = url, !.pc = "dbread"]]
    /\ UNCHANGED <<id_generator, db, cache, publisher, tasks, bus>>

\* redirect_to_url, lines 127-132: cache.get; a hit goes on to the analytics
\* publisher, a miss to the database
RedirectGet(r, code) ==
    /\ Arrives(r)
    /\ LET url == CacheGet(cache, code) IN
       req' = [req EXCEPT ![r] =
                 [@ EXCEPT !.kind = "redirect", !.code = code, !.got = url,
                           !.url = url,
                           !.pc = IF url # "" THEN "analytics" ELSE "dbread"]]
    /\ UNCHANGED <<id_generator, db, cache, publisher, tasks, bus>>

\* RedirectDbRead going on to the backfill when the SELECT found no record
RedirectDbRead_NoNotFound(r) ==
    /\ req[r].kind = "redirect"
    /\ req[r].pc = "dbread"
    /\ LET rows == SelectByCode(db, req[r].code) IN
       req' = [req EXCEPT ![r] =
                 [@ EXCEPT !.dbReads = @ + 1, !.pc = "backfill",
                           !.url = IF rows = {} THEN ""
                                   ELSE (CHOOSE row \in rows : TRUE).original_url]]
    /\ UNCHANGED <<id_generator, db, cache, publisher, tasks, bus>>

\* redirect_to_url, lines 143-151: the SELECT; 404 if there is no record
RedirectDbRead(r) ==
    /\ req[r].kind = "redirect"
    /\ req[r].pc = "dbread"
    /\ LET rows == SelectByCode(db, req[r].code) IN
       IF rows = {}
       THEN req' = [req EXCEPT ![r] =
                      [Reply(r, 404, "") EXCEPT !.dbReads = @ + 1]]
       ELSE req' = [req EXCEPT ![r] =
                      [@ EXCEPT !.dbReads = @ + 1, !.pc = "backfill",
                                !.url = (CHOOSE row \in rows : TRUE).original_url]]
    /\ UNCHANGED <<id_generator, db, cache, publisher, tasks, bus>>

\* RedirectBackfill without the write
RedirectBackfill_NoWrite(r) ==
    /\ req[r].kind = "redirect"
    /\ req[r].pc = "backfill"
    /\ req' = [req EXCEPT ![r].pc = "analytics"]
    /\ UNCHANGED <<id_generator, db, cache, publisher, tasks, bus>>

\* redirect_to_url, line 154: the cache is backfilled
RedirectBackfill(r) ==
    /\ req[r].kind = "redirect"
    /\ req[r].pc = "backfill"
    /\ cache' = CacheSet(cache, req[r].code, req[r].url)
    /\ req' = [req EXCEPT ![r].pc = "analytics"]
    /\ UNCHANGED <<id_generator, db, publisher, tasks, bus>>

\* redirect_to_url, line 154: the SETEX raises (KV store unreachable); nothing
\* catches it and the request ends with 500
RedirectBackfillFails(r) ==
    /\ req[r].kind = "redirect"
    /\ req[r].pc = "backfill"
    /\ req' = [req EXCEPT ![r] = Reply(r, 500, "")]
    /\ UNCHANGED <<id_generator, db, cache, publisher, tasks, bus>>

\* redirect_to_url, lines 134-141 and 157-163, with a publisher at hand:
\* publish_click_event is scheduled as a task and the 301 is returned
RedirectReply(r) ==
    /\ req[r].kind = "redirect"
    /\ req[r].pc = "analytics"
    /\ publisher = "ready"
    /\ tasks' = tasks \cup {r}
    /\ req' = [req EXCEPT ![r] = Reply(r, 301, req[r].url)]
    /\ UNCHANGED <<id_generator, db, cache, publisher, bus>>

\* the same lines while analytics_publisher is None: get_analytics_publisher()
\* tries to connect to the bus, the handler awaiting it; connected, the event
\* is scheduled; not connected, None comes back and nothing is scheduled
RedirectConnect(r, connected) ==
    /\ req[r].kind = "redirect"
    /\ req[r].pc = "analytics"
    /\ publisher = "none"
    /\ publisher' = IF connected THEN "ready" ELSE "none"
    /\ tasks' = IF connected THEN tasks \cup {r} ELSE tasks
    /\ req' = [req EXCEPT ![r] =
                 [Reply(r, 301, req[r].url) EXCEPT !.busWaits = @ + 1]]
    /\ UNCHANGED <<id_generator, db, cache, bus>>

\* the detached publish_click_event task publishes its event
PublishTask(r) ==
    /\ r \in tasks
    /\ tasks' = tasks \ {r}
    /\ bus' = bus \cup {r}
    /\ UNCHANGED <<id_generator, db, cache, req, publisher>>

\* PublishTaskFails with the failure reaching the request's response
PublishTaskFails_Raises(r) ==
    /\ r \in tasks
    /\ tasks' = tasks \ {r}
    /\ req' = [req EXCEPT ![r] = Reply(r, 500, "")]
    /\ UNCHANGED <<id_generator, db, cache, publisher, bus>>

\* publish_click_event, lines 90-95: the publish raises; logged, not raised
PublishTaskFails(r) ==
    /\ r \in tasks
    /\ tasks' = tasks \ {r}
    /\ UNCHANGED <<id_generator, db, cache, req, publisher, bus>>

\* a cache entry's TTL runs out (or the entry is evicted)
CacheExpire(e) ==
    /\ e \in cache
    /\ cache' = cache \ {e}
    /\ UNCHANGED <<id_generator, db, req, publisher, tasks, bus>>

\* publish_click_event, lines 80-86: the message given to exchange.publish.
\* No delivery_mode is passed, and aio_pika.Message then takes NOT_PERSISTENT.
ClickMessage(r) ==
    [body |-> r, content_type |-> "application/json", delivery_mode |-> "not_persistent",
     routing_key |-> "click_events"]

\* the bus restarts: of the messages in its durable queue it keeps those that
\* were published with persistent delivery
BusRestart ==
    /\ bus' = {r \in bus : ClickMessage(r).delivery_mode = "persistent"}
    /\ UNCHANGED <<id_generator, db, cache, req, publisher, tasks>>

\* the record a run of the process leaves behind: its first shorten, of url,
\* with worker ID w and the clock at t1 and t2 (below: worker 0, in the first
\* millisecond)
FirstRecord(w, url, t1, t2) ==
    LET g1 == GenerateSync(NewGenerator(w), t1)
        g2 == GenerateSync(g1.gen, t2)
    IN [snowflake_id |-> g1.id, original_url |-> url,
        short_code |-> base62_encode(g2.id)]

\* the process started again (or a second one started) on a relational store
\* and a cache that an earlier run has used: that run's record is there,
\* cached or not; startup_event has built a new generator, which knows nothing
\* of the IDs issued before, and the clock may since have been set back
SecondRunInit ==
    /\ \E w \in HttpWorkerIds : id_generator = NewGenerator(w)
    /\ \E url \in Urls :
          /\ db = {FirstRecord(0, url, 0, 0)}
          /\ \/ cache = {}
             \/ cache = CacheSet({}, FirstRecord(0, url, 0, 0).short_code, url)
    /\ req = [r \in Reqs |-> NoRequest]
    /\ publisher \in {"none", "ready"}
    /\ tasks = {}
    /\ bus = {}

HttpNext ==
    \/ \E r \in Reqs, body \in ShortenBodies, t1 \in HttpClock, t2 \in HttpClock :
          ShortenStart(r, body, t1, t2) /\ UNCHANGED <<genVars, leaseVars, consVars, lifeVars, codecVars>>
    \/ \E r \in Reqs : ShortenCommit(r) /\ UNCHANGED <<genVars, leaseVars, consVars, lifeVars, codecVars>>
    \/ \E r \in Reqs : ShortenPrime(r) /\ UNCHANGED <<genVars, leaseVars, consVars, lifeVars, codecVars>>
    \/ \E r \in Reqs : ShortenPrimeFails(r) /\ UNCHANGED <<genVars, leaseVars, consVars, lifeVars, codecVars>>
    \/ \E r \in Reqs : \E code \in KnownCodes :
          RedirectGet(r, code) /\ UNCHANGED <<genVars, leaseVars, consVars, lifeVars, codecVars>>
    \/ \E r \in Reqs : RedirectDbRead(r) /\ UNCHANGED <<genVars, leaseVars, consVars, lifeVars, codecVars>>
    \/ \E r \in Reqs : RedirectBackfill(r) /\ UNCHANGED <<genVars, leaseVars, consVars, lifeVars, codecVars>>
    \/ \E r \in Reqs : RedirectBackfillFails(r) /\ UNCHANGED <<genVars, leaseVars, consVars, lifeVars, codecVars>>
    \/ \E r \in Reqs : RedirectReply(r) /\ UNCHANGED <<genVars, leaseVars, consVars, lifeVars, codecVars>>
    \/ \E r \in Reqs, connected \in BOOLEAN :
          RedirectConnect(r, connected) /\ UNCHANGED <<genVars, leaseVars, consVars, lifeVars, codecVars>>
    \/ \E r \in Reqs : PublishTask(r) /\ UNCHANGED <<genVars, leaseVars, consVars, lifeVars, codecVars>>
    \/ \E r \in Reqs : PublishTaskFails(r) /\ UNCHANGED <<genVars, leaseVars, consVars, lifeVars, codecVars>>
    \/ \E e \in cache : CacheExpire(e) /\ UNCHANGED <<genVars, leaseVars, consVars, lifeVars, codecVars>>

\* the shorten requests alone
ShortenNext ==
    \/ \E r \in Reqs, body \in ShortenBodies, t1 \in HttpClock, t2 \in HttpClock :
          ShortenStart(r, body, t1, t2) /\ UNCHANGED <<genVars, leaseVars, consVars, lifeVars, codecVars>>
    \/ \E r \in Reqs : ShortenCommit(r) /\ UNCHANGED <<genVars, leaseVars, consVars, lifeVars, codecVars>>
    \/ \E r \in Reqs : ShortenPrime(r) /\ UNCHANGED <<genVars, leaseVars, consVars, lifeVars, codecVars>>
    \/ \E r \in Reqs : ShortenPrimeFails(r) /\ UNCHANGED <<genVars, leaseVars, consVars, lifeVars, codecVars>>
    \/ \E e \in cache : CacheExpire(e) /\ UNCHANGED <<genVars, leaseVars, consVars, lifeVars, codecVars>>

\* the requests of a run on stores an earlier run has used, and bus restarts
SecondRunNext ==
    \/ HttpNext
    \/ BusRestart /\ UNCHANGED <<genVars, leaseVars, consVars, lifeVars, codecVars>>

(***************************************************************************)
(* The event consumer (event-consumer/consumer.py) on queue click_events   *)
(* and table click_events.  A message is identified by its number; its     *)
(* body is one of three kinds.  The consumer takes one message at a time   *)
(* (consume_events awaits process_message inside the iteration).  It sets  *)
(* no prefetch limit, so the broker hands it every queued message at once: *)
(* while the consumer runs, the messages of queue are with the consumer,   *)
(* unacknowledged, until process_message takes them.                       *)
(***************************************************************************)
Events == 1..MaxEvents

\* message bodies: "event" is the JSON object publish_click_event builds;
\* "notjson" makes json.loads raise JSONDecodeError; "badevent" is JSON that
\* is no click event (no object, or no "timestamp"), on which
\* event_data.get or insert_click_event raises before any await
Bodies == {"event", "notjson", "badevent"}

NoMessage == [ev |-> 0, body |-> ""]

\* json.loads(message.body.decode()) and the use of the result up to the
\* first await of process_message
Decode(body) ==
    CASE body = "event" -> "ok"
      [] body = "notjson" -> "JSONDecodeError"
      [] OTHER -> "Exception"

ConsumerInit ==
    /\ queue = <<>>
    /\ published = {}
    /\ cpc = "wait"
    /\ cur = NoMessage
    /\ click_events = [e \in Events |-> 0]
    /\ acked = {}
    /\ rejected = {}
    /\ stops = 0
    /\ redelivered = {}

\* a producer publishes message e with the given body to the queue
\* (publish_click_event always publishes an "event")
Publish(e, body) ==
    /\ e \notin published
    /\ published' = published \cup {e}
    /\ queue' = Append(queue, [ev |-> e, body |-> body])
    /\ UNCHANGED <<cpc, cur, click_events, acked, rejected>>
    /\ UNCHANGED <<stops, redelivered>>

\* Deliver rejecting, unprocessed, a message the broker flags as redelivered
Deliver_RejectsRedelivered ==
    /\ cpc = "wait"
    /\ queue # <<>>
    /\ queue' = Tail(queue)
    /\ IF Head(queue).ev \in redelivered
       THEN /\ rejected' = rejected \cup {Head(queue)}
            /\ UNCHANGED <<cur, cpc>>
       ELSE /\ cur' = Head(queue)
            /\ cpc' = "insert"
            /\ UNCHANGED rejected
    /\ UNCHANGED <<published, click_events, acked, stops, redelivered>>

\* process_message, lines 133-137 and 144-152, up to the first await: the
\* next message enters the scope of message.process() and is decoded.
\* JSONDecodeError is caught inside the scope, which so exits without error
\* and acknowledges the message.  Any other exception is raised again: the
\* scope rejects the message (process() has requeue=False) and the
\* exception ends consume_events with sys.exit(1).
Deliver ==
    /\ cpc = "wait"
    /\ queue # <<>>
    /\ LET message == Head(queue)
           decoded == Decode(message.body)
       IN
       /\ queue' = Tail(queue)
       /\ CASE decoded = "ok" ->
                 /\ cur' = message
                 /\ cpc' = "insert"
                 /\ UNCHANGED <<acked, rejected>>
            [] decoded = "JSONDecodeError" ->
                 /\ acked' = acked \cup {message}
                 /\ UNCHANGED <<cur, cpc, rejected>>
            [] OTHER ->
                 /\ rejected' = rejected \cup {message}
                 /\ cpc' = "exited"
                 /\ UNCHANGED <<cur, acked>>
    /\ UNCHANGED <<published, click_events>>
    /\ UNCHANGED <<stops, redelivered>>

\* InsertRow without the row
InsertRow_NoRow ==
    /\ cpc = "insert"
    /\ cpc' = "ack"
    /\ UNCHANGED <<queue, published, cur, click_events, acked, rejected>>
    /\ UNCHANGED <<stops, redelivered>>

\* insert_click_event, lines 82-114: the INSERT is executed
InsertRow ==
    /\ cpc = "insert"
    /\ click_events' = [click_events EXCEPT ![cur.ev] = @ + 1]
    /\ cpc' = "ack"
    /\ UNCHANGED <<queue, published, cur, acked, rejected>>
    /\ UNCHANGED <<stops, redelivered>>

\* process_message, line 133: the scope exits without error and
\* acknowledges the message
Ack ==
    /\ cpc = "ack"
    /\ acked' = acked \cup {cur}
    /\ cur' = NoMessage
    /\ cpc' = "wait"
    /\ UNCHANGED <<queue, published, click_events, rejected>>
    /\ UNCHANGED <<stops, redelivered>>

\* insert_click_event, lines 116-119, process_message, lines 149-152, and
\* consume_events, lines 224-226: the INSERT raises; the exception is raised
\* again through the scope, which rejects the message without requeue, and
\* ends the consumer with sys.exit(1)
InsertFails ==
    /\ cpc = "insert"
    /\ rejected' = rejected \cup {cur}
    /\ cur' = NoMessage
    /\ cpc' = "exited"
    /\ UNCHANGED <<queue, published, click_events, acked>>
    /\ UNCHANGED <<stops, redelivered>>

\* the messages the consumer has received and not acknowledged
Unacked ==
    (IF cur # NoMessage /\ cur \notin acked THEN <<cur>> ELSE <<>>) \o queue

\* the consumer process is stopped (killed, host lost) where it stands: its
\* connection closes and the broker requeues what it had not acknowledged,
\* flagged as redelivered
Kill ==
    /\ cpc \in {"wait", "insert", "ack"}
    /\ stops < MaxStops
    /\ stops' = stops + 1
    /\ queue' = Unacked
    /\ redelivered' = redelivered \cup {Unacked[i].ev : i \in 1..Len(Unacked)}
    /\ cur' = NoMessage
    /\ cpc' = "down"
    /\ UNCHANGED <<published, click_events, acked, rejected>>

\* the consumer process is started again: consume_events connects and
\* consumes from the queue
Restart ==
    /\ cpc = "down"
    /\ cpc' = "wait"
    /\ UNCHANGED <<queue, published, cur, click_events, acked, rejected>>
    /\ UNCHANGED <<stops, redelivered>>

ConsumerNext ==
    \/ \E e \in Events, body \in Bodies :
          Publish(e, body) /\ UNCHANGED <<genVars, leaseVars, httpVars, lifeVars, codecVars>>
    \/ Deliver /\ UNCHANGED <<genVars, leaseVars, httpVars, lifeVars, codecVars>>
    \/ InsertRow /\ UNCHANGED <<genVars, leaseVars, httpVars, lifeVars, codecVars>>
    \/ Ack /\ UNCHANGED <<genVars, leaseVars, httpVars, lifeVars, codecVars>>
    \/ InsertFails /\ UNCHANGED <<genVars, leaseVars, httpVars, lifeVars, codecVars>>

\* a consumer without faults on a queue of click events
FaultFreeNext ==
    \/ \E e \in Events :
          Publish(e, "event") /\ UNCHANGED <<genVars, leaseVars, httpVars, lifeVars, codecVars>>
    \/ Deliver /\ UNCHANGED <<genVars, leaseVars, httpVars, lifeVars, codecVars>>
    \/ InsertRow /\ UNCHANGED <<genVars, leaseVars, httpVars, lifeVars, codecVars>>
    \/ Ack /\ UNCHANGED <<genVars, leaseVars, httpVars, lifeVars, codecVars>>

\* a consumer without faults of its own that is stopped and started again
RestartNext ==
    \/ \E e \in Events :
          Publish(e, "event") /\ UNCHANGED <<genVars, leaseVars, httpVars, lifeVars, codecVars>>
    \/ Deliver /\ UNCHANGED <<genVars, leaseVars, httpVars, lifeVars, codecVars>>
    \/ InsertRow /\ UNCHANGED <<genVars, leaseVars, httpVars, lifeVars, codecVars>>
    \/ Ack /\ UNCHANGED <<genVars, leaseVars, httpVars, lifeVars, codecVars>>
    \/ Kill /\ UNCHANGED <<genVars, leaseVars, httpVars, lifeVars, codecVars>>
    \/ Restart /\ UNCHANGED <<genVars, leaseVars, httpVars, lifeVars, codecVars>>

(***************************************************************************)
(* Worker-ID leasing (WorkerIDManager) over the KV store.                  *)
(***************************************************************************)
Procs == 1..NumProcs

\* range(max_worker_id + 1)
Slots == 0..SETTINGS_MAX_WORKER_ID

\* mutant: SET without NX
SetNxEx_NoNx(store, n, ttl) == [ok |-> TRUE, store |-> [store EXCEPT ![n] = ttl]]

\* mutant: a SET NX that finds the key still resets its TTL
SetNxEx_Refreshes(store, n, ttl) ==
    [ok |-> store[n] = 0, store |-> [store EXCEPT ![n] = ttl]]

\* redis SET key "leased" NX EX ttl: [ok, store]
SetNxEx(store, n, ttl) ==
    IF store[n] = 0
    THEN [ok |-> TRUE, store |-> [store EXCEPT ![n] = ttl]]
    ELSE [ok |-> FALSE, store |-> store]

\* redis EXPIRE key ttl: [ok, store], ok iff the key exists
ExpireKey(store, n, ttl) ==
    IF store[n] > 0
    THEN [ok |-> TRUE, store |-> [store EXCEPT ![n] = ttl]]
    ELSE [ok |-> FALSE, store |-> store]

\* redis DEL key
DeleteKey(store, n) == [store EXCEPT ![n] = 0]

\* WorkerIDManager.__init__ of every process, and an empty KV store
LeaseInit ==
    /\ lease = [n \in Slots |-> 0]
    /\ wpc = [p \in Procs |-> "unleased"]
    /\ held_id = [p \in Procs |-> -1]
    /\ cand = [p \in Procs |-> 0]
    /\ rtask = [p \in Procs |-> "none"]
    /\ timer = [p \in Procs |-> 0]
    /\ owner = [n \in Slots |-> 0]

\* mutant: the walk starts at candidate 1
StartAcquire_FromOne(p) ==
    /\ wpc[p] = "unleased"
    /\ wpc' = [wpc EXCEPT ![p] = "acquiring"]
    /\ cand' = [cand EXCEPT ![p] = 1]
    /\ UNCHANGED <<lease, owner, held_id, rtask, timer>>

\* acquire_worker_id is called (startup_event); the first probe is candidate 0
StartAcquire(p) ==
    /\ wpc[p] = "unleased"
    /\ wpc' = [wpc EXCEPT ![p] = "acquiring"]
    /\ cand' = [cand EXCEPT ![p] = 0]
    /\ UNCHANGED <<lease, owner, held_id, rtask, timer>>

\* one iteration of the acquire loop: the SET NX EX probe of candidate_id, then
\* either the lease is taken and the renewal task started, or the loop goes on,
\* or (after the last candidate) RuntimeError is raised and startup fails
Probe(p) ==
    /\ wpc[p] = "acquiring"
    /\ LET r == SetNxEx(lease, cand[p], WORKER_ID_LEASE_TTL) IN
        /\ lease' = r.store
        /\ owner' = IF r.ok THEN [owner EXCEPT ![cand[p]] = p] ELSE owner
        /\ IF r.ok
           THEN /\ held_id' = [held_id EXCEPT ![p] = cand[p]]
                /\ wpc' = [wpc EXCEPT ![p] = "held"]
                /\ rtask' = [rtask EXCEPT ![p] = "sleep"]
                /\ timer' = [timer EXCEPT ![p] = WORKER_ID_RENEWAL_INTERVAL]
                /\ UNCHANGED cand
           ELSE IF cand[p] < SETTINGS_MAX_WORKER_ID
           THEN /\ cand' = [cand EXCEPT ![p] = @ + 1]
                /\ UNCHANGED <<wpc, held_id, rtask, timer>>
           ELSE /\ wpc' = [wpc EXCEPT ![p] = "failed"]
                /\ UNCHANGED <<cand, held_id, rtask, timer>>

\* _renew_lease_loop after its sleep: EXPIRE on the key computed at task start;
\* if the key is gone the task goes on to the SET NX EX of line 127
RenewExpire(p) ==
    /\ wpc[p] = "held"
    /\ rtask[p] = "sleep"
    /\ timer[p] = 0
    /\ LET r == ExpireKey(lease, held_id[p], WORKER_ID_LEASE_TTL) IN
        /\ lease' = r.store
        /\ IF r.ok
           THEN /\ timer' = [timer EXCEPT ![p] = WORKER_ID_RENEWAL_INTERVAL]
                /\ UNCHANGED rtask
           ELSE /\ rtask' = [rtask EXCEPT ![p] = "reacquire"]
                /\ UNCHANGED timer
    /\ UNCHANGED <<wpc, held_id, cand, owner>>

\* _renew_lease_loop, line 127: SET NX EX on the same key, its result not looked
\* at; then the loop sleeps again
RenewReacquire(p) ==
    /\ wpc[p] = "held"
    /\ rtask[p] = "reacquire"
    /\ lease' = SetNxEx(lease, held_id[p], WORKER_ID_LEASE_TTL).store
    /\ owner' = IF SetNxEx(lease, held_id[p], WORKER_ID_LEASE_TTL).ok
                THEN [owner EXCEPT ![held_id[p]] = p]
                ELSE owner
    /\ rtask' = [rtask EXCEPT ![p] = "sleep"]
    /\ timer' = [timer EXCEPT ![p] = WORKER_ID_RENEWAL_INTERVAL]
    /\ UNCHANGED <<wpc, held_id, cand>>

\* _renew_lease_loop, lines 134-135: a redis call raises (transport failure); the
\* except clause is outside the while loop, so the task logs and ends
RenewError(p) ==
    /\ wpc[p] = "held"
    /\ \/ rtask[p] = "sleep" /\ timer[p] = 0
       \/ rtask[p] = "reacquire"
    /\ rtask' = [rtask EXCEPT ![p] = "ended"]
    /\ UNCHANGED <<lease, owner, wpc, held_id, cand, timer>>

\* mutant: the release leaves the renewal task running
ReleaseCancel_KeepsTask(p) ==
    /\ wpc[p] = "held"
    /\ wpc' = [wpc EXCEPT ![p] = "releasing"]
    /\ UNCHANGED <<lease, owner, held_id, cand, rtask, timer>>

\* release_worker_id, lines 88-94: the renewal task is cancelled and awaited
ReleaseCancel(p) ==
    /\ wpc[p] = "held"
    /\ wpc' = [wpc EXCEPT ![p] = "releasing"]
    /\ rtask' = [rtask EXCEPT ![p] = "none"]
    /\ timer' = [timer EXCEPT ![p] = 0]
    /\ UNCHANGED <<lease, owner, held_id, cand>>

\* release_worker_id, lines 96-100: DEL of the key, worker_id = None.  The
\* manager is Unleased again and the process, which releases in its
\* shutdown_event, has stopped: a restart is another process of Procs.
ReleaseDelete(p) ==
    /\ wpc[p] = "releasing"
    /\ lease' = DeleteKey(lease, held_id[p])
    /\ owner' = [owner EXCEPT ![held_id[p]] = 0]
    /\ held_id' = [held_id EXCEPT ![p] = -1]
    /\ wpc' = [wpc EXCEPT ![p] = "stopped"]
    /\ UNCHANGED <<cand, rtask, timer>>

\* the process dies without releasing: its tasks are gone, its key stays
Crash(p) ==
    /\ wpc[p] \in {"acquiring", "held", "releasing"}
    /\ wpc' = [wpc EXCEPT ![p] = "crashed"]
    /\ rtask' = [rtask EXCEPT ![p] = "none"]
    /\ timer' = [timer EXCEPT ![p] = 0]
    /\ UNCHANGED <<lease, owner, held_id, cand>>

\* one unit of time passes: the TTL of every key runs down (a key whose TTL
\* reaches 0 has expired) and so does every sleep.  Nothing forces a process to
\* act before the next tick: a process may be paused for any length of time.
Tick ==
    /\ lease' = [n \in Slots |-> IF lease[n] > 0 THEN lease[n] - 1 ELSE 0]
    /\ owner' = [n \in Slots |-> IF lease[n] > 1 THEN owner[n] ELSE 0]
    /\ timer' = [p \in Procs |-> IF timer[p] > 0 THEN timer[p] - 1 ELSE 0]
    /\ UNCHANGED <<wpc, held_id, cand, rtask>>

\* time passes for processes that are not paused and reach the KV store: no
\* holder is left with a renewal that is due
PromptTick ==
    /\ \A p \in Procs :
          wpc[p] = "held" => (rtask[p] = "sleep" /\ timer[p] > 0)
    /\ Tick

\* holders that renew on time, beside acquisitions, releases and crashes
PromptNext ==
    \/ \E p \in Procs : StartAcquire(p) /\ UNCHANGED <<genVars, httpVars, consVars, lifeVars, codecVars>>
    \/ \E p \in Procs : Probe(p) /\ UNCHANGED <<genVars, httpVars, consVars, lifeVars, codecVars>>
    \/ \E p \in Procs : RenewExpire(p) /\ UNCHANGED <<genVars, httpVars, consVars, lifeVars, codecVars>>
    \/ \E p \in Procs : RenewReacquire(p) /\ UNCHANGED <<genVars, httpVars, consVars, lifeVars, codecVars>>
    \/ \E p \in Procs : ReleaseCancel(p) /\ UNCHANGED <<genVars, httpVars, consVars, lifeVars, codecVars>>
    \/ \E p \in Procs : ReleaseDelete(p) /\ UNCHANGED <<genVars, httpVars, consVars, lifeVars, codecVars>>
    \/ \E p \in Procs : Crash(p) /\ UNCHANGED <<genVars, httpVars, consVars, lifeVars, codecVars>>
    \/ PromptTick /\ UNCHANGED <<genVars, httpVars, consVars, lifeVars, codecVars>>

\* no second release call and nothing closed yet
LifeInit ==
    /\ released_again = [p \in Procs |-> FALSE]
    /\ closed = [p \in Procs |-> <<>>]

\* release_worker_id called again on the manager it has released: the whole
\* body runs again, each of its two ifs on the state the first call left
ReleaseAgain(p) ==
    /\ wpc[p] = "stopped"
    /\ released_again' = [released_again EXCEPT ![p] = TRUE]
    /\ IF rtask[p] # "none"
       THEN /\ rtask' = [rtask EXCEPT ![p] = "none"]
            /\ timer' = [timer EXCEPT ![p] = 0]
       ELSE UNCHANGED <<rtask, timer>>
    /\ IF held_id[p] # -1
       THEN /\ lease' = DeleteKey(lease, held_id[p])
            /\ owner' = [owner EXCEPT ![held_id[p]] = 0]
            /\ held_id' = [held_id EXCEPT ![p] = -1]
       ELSE UNCHANGED <<lease, owner, held_id>>
    /\ UNCHANGED <<wpc, cand, closed>>

\* shutdown_event, line 77, after the release: close_analytics_publisher
ClosePublisher(p) ==
    /\ wpc[p] = "stopped"
    /\ closed[p] = <<>>
    /\ closed' = [closed EXCEPT ![p] = <<"publisher">>]
    /\ UNCHANGED <<lease, owner, wpc, held_id, cand, rtask, timer, released_again>>

\* shutdown_event, line 80: close_redis_client
CloseKv(p) ==
    /\ wpc[p] = "stopped"
    /\ closed[p] = <<"publisher">>
    /\ closed' = [closed EXCEPT ![p] = <<"publisher", "kv">>]
    /\ UNCHANGED <<lease, owner, wpc, held_id, cand, rtask, timer, released_again>>

\* acquisition, renewal and release, with release_worker_id called again on
\* a released manager, while time passes
LifecycleNext ==
    \/ \E p \in Procs : StartAcquire(p) /\ UNCHANGED <<genVars, httpVars, consVars, lifeVars, codecVars>>
    \/ \E p \in Procs : Probe(p) /\ UNCHANGED <<genVars, httpVars, consVars, lifeVars, codecVars>>
    \/ \E p \in Procs : RenewExpire(p) /\ UNCHANGED <<genVars, httpVars, consVars, lifeVars, codecVars>>
    \/ \E p \in Procs : RenewReacquire(p) /\ UNCHANGED <<genVars, httpVars, consVars, lifeVars, codecVars>>
    \/ \E p \in Procs : RenewError(p) /\ UNCHANGED <<genVars, httpVars, consVars, lifeVars, codecVars>>
    \/ \E p \in Procs : ReleaseCancel(p) /\ UNCHANGED <<genVars, httpVars, consVars, lifeVars, codecVars>>
    \/ \E p \in Procs : ReleaseDelete(p) /\ UNCHANGED <<genVars, httpVars, consVars, lifeVars, codecVars>>
    \/ \E p \in Procs : ReleaseAgain(p) /\ UNCHANGED <<genVars, httpVars, consVars, codecVars>>
    \/ Tick /\ UNCHANGED <<genVars, httpVars, consVars, lifeVars, codecVars>>

\* startup_event and shutdown_event of every process, step by step
ShutdownNext ==
    \/ \E p \in Procs : StartAcquire(p) /\ UNCHANGED <<genVars, httpVars, consVars, lifeVars, codecVars>>
    \/ \E p \in Procs : Probe(p) /\ UNCHANGED <<genVars, httpVars, consVars, lifeVars, codecVars>>
    \/ \E p \in Procs : ReleaseCancel(p) /\ UNCHANGED <<genVars, httpVars, consVars, lifeVars, codecVars>>
    \/ \E p \in Procs : ReleaseDelete(p) /\ UNCHANGED <<genVars, httpVars, consVars, lifeVars, codecVars>>
    \/ \E p \in Procs : ClosePublisher(p) /\ UNCHANGED <<genVars, httpVars, consVars, codecVars>>
    \/ \E p \in Procs : CloseKv(p) /\ UNCHANGED <<genVars, httpVars, consVars, codecVars>>

LeaseNext ==
    \/ \E p \in Procs : StartAcquire(p) /\ UNCHANGED <<genVars, httpVars, consVars, lifeVars, codecVars>>
    \/ \E p \in Procs : Probe(p) /\ UNCHANGED <<genVars, httpVars, consVars, lifeVars, codecVars>>
    \/ \E p \in Procs : RenewExpire(p) /\ UNCHANGED <<genVars, httpVars, consVars, lifeVars, codecVars>>
    \/ \E p \in Procs : RenewReacquire(p) /\ UNCHANGED <<genVars, httpVars, consVars, lifeVars, codecVars>>
    \/ \E p \in Procs : RenewError(p) /\ UNCHANGED <<genVars, httpVars, consVars, lifeVars, codecVars>>
    \/ \E p \in Procs : ReleaseCancel(p) /\ UNCHANGED <<genVars, httpVars, consVars, lifeVars, codecVars>>
    \/ \E p \in Procs : ReleaseDelete(p) /\ UNCHANGED <<genVars, httpVars, consVars, lifeVars, codecVars>>
    \/ \E p \in Procs : Crash(p) /\ UNCHANGED <<genVars, httpVars, consVars, lifeVars, codecVars>>
    \/ Tick /\ UNCHANGED <<genVars, httpVars, consVars, lifeVars, codecVars>>

\* the generators are not part of the lease specifications
GenIdle ==
    /\ gen = [i \in Gens |-> NewGenerator(0)]
    /\ gpc = [i \in Gens |-> "idle"]
    /\ out = [i \in Gens |-> NoOutcome]
    /\ lastId = [i \in Gens |-> -1]
    /\ sameMs = [i \in Gens |-> 0]
    /\ issued = [i \in Gens |-> {}]
    /\ calls = [i \in Gens |-> 0]

\* the cluster: acquisition, renewal, release, crashes and the passing of time
LeaseSpecInit == GenIdle /\ LeaseInit /\ HttpIdle /\ ConsumerInit /\ LifeInit /\ CodecIdle

LeaseSpec == LeaseSpecInit /\ [][LeaseNext]_vars

\* acquisitions (and releases) in any interleaving of their probes, while no time
\* passes: no key expires and no renewal is due
AcquireNext ==
    \/ \E p \in Procs : StartAcquire(p) /\ UNCHANGED <<genVars, httpVars, consVars, lifeVars, codecVars>>
    \/ \E p \in Procs : Probe(p) /\ UNCHANGED <<genVars, httpVars, consVars, lifeVars, codecVars>>
    \/ \E p \in Procs : ReleaseCancel(p) /\ UNCHANGED <<genVars, httpVars, consVars, lifeVars, codecVars>>
    \/ \E p \in Procs : ReleaseDelete(p) /\ UNCHANGED <<genVars, httpVars, consVars, lifeVars, codecVars>>

AcquireSpec == LeaseSpecInit /\ [][AcquireNext]_vars

LifecycleSpec == LeaseSpecInit /\ [][LifecycleNext]_vars

PromptSpec == LeaseSpecInit /\ [][PromptNext]_vars

\* the cluster of LeaseSpec in which time does not stand still
ReclaimSpec ==
    /\ LeaseSpecInit
    /\ [][LeaseNext]_vars
    /\ WF_<<lease, wpc, held_id, cand, rtask, timer, owner>>(Tick)

ShutdownSpec == LeaseSpecInit /\ [][ShutdownNext]_vars

CodecSpecInit == GenIdle /\ LeaseInit /\ HttpIdle /\ ConsumerInit /\ LifeInit /\ CodecInit

\* base62_encode and base62_decode applied to every input of the bounded sets
CodecSpec == CodecSpecInit /\ [][CodecNext]_vars

ConsumerSpecInit == GenIdle /\ LeaseInit /\ HttpIdle /\ ConsumerInit /\ LifeInit /\ CodecIdle

\* the consumer with every kind of message and with failing inserts
ConsumerSpec == ConsumerSpecInit /\ [][ConsumerNext]_vars

\* the consumer without faults: consume_events is a loop that, while it
\* runs, takes the next message, inserts and acknowledges
FaultFreeSpec ==
    /\ ConsumerSpecInit
    /\ [][FaultFreeNext]_vars
    /\ WF_<<queue, published, cpc, cur, click_events, acked, rejected>>(Deliver)
    /\ WF_<<queue, published, cpc, cur, click_events, acked, rejected>>(InsertRow)
    /\ WF_<<queue, published, cpc, cur, click_events, acked, rejected>>(Ack)

\* the consumer stopped and restarted: while it runs its loop goes on, and
\* a stopped consumer is started again
RestartSpec ==
    /\ ConsumerSpecInit
    /\ [][RestartNext]_vars
    /\ WF_<<queue, published, cpc, cur, click_events, acked, rejected>>(Deliver)
    /\ WF_<<queue, published, cpc, cur, click_events, acked, rejected>>(InsertRow)
    /\ WF_<<queue, published, cpc, cur, click_events, acked, rejected>>(Ack)
    /\ WF_<<queue, published, cpc, cur, click_events, acked, rejected>>(Restart)

HttpSpecInit == GenIdle /\ LeaseInit /\ HttpInit /\ ConsumerInit /\ LifeInit /\ CodecIdle

\* the serving process: shorten and redirect requests in any interleaving
HttpSpec == HttpSpecInit /\ [][HttpNext]_vars

SecondRunSpecInit ==
    GenIdle /\ LeaseInit /\ SecondRunInit /\ ConsumerInit /\ LifeInit /\ CodecIdle

SecondRunSpec == SecondRunSpecInit /\ [][SecondRunNext]_vars

\* shorten requests of a run on stores an earlier run has used
CollisionSpec == SecondRunSpecInit /\ [][ShortenNext]_vars

GenInit ==
    /\ \E w \in WorkerIdSamples :
          gen = [i \in Gens |-> NewGenerator(IF i = 1 THEN w ELSE 0)]
    /\ gpc = [i \in Gens |-> "idle"]
    /\ out = [i \in Gens |-> NoOutcome]
    /\ lastId = [i \in Gens |-> -1]
    /\ sameMs = [i \in Gens |-> 0]
    /\ issued = [i \in Gens |-> {}]
    /\ calls = [i \in Gens |-> 0]

\* one generator, any number of calls, any clock readings
GenNext ==
    \/ \E t \in Clock : GenerateCall(1, t) /\ UNCHANGED <<issued, calls, leaseVars, httpVars, consVars, lifeVars, codecVars>>
    \/ \E t \in Clock : WaitRead(1, t) /\ UNCHANGED <<issued, calls, leaseVars, httpVars, consVars, lifeVars, codecVars>>

GenSpecInit == GenInit /\ LeaseInit /\ HttpIdle /\ ConsumerInit /\ LifeInit /\ CodecIdle

GenSpec == GenSpecInit /\ [][GenNext]_vars

\* two generators with distinct worker IDs, MaxCalls calls each, any clock readings
TwoGenInit ==
    /\ \E w1, w2 \in WorkerIdSamples :
          /\ w1 # w2
          /\ gen = [i \in Gens |-> NewGenerator(IF i = 1 THEN w1 ELSE w2)]
    /\ gpc = [i \in Gens |-> "idle"]
    /\ out = [i \in Gens |-> NoOutcome]
    /\ lastId = [i \in Gens |-> -1]
    /\ sameMs = [i \in Gens |-> 0]
    /\ issued = [i \in Gens |-> {}]
    /\ calls = [i \in Gens |-> 0]

TwoGenCall(i, t) ==
    /\ calls[i] < MaxCalls
    /\ GenerateCall(i, t)
    /\ calls' = [calls EXCEPT ![i] = @ + 1]
    /\ issued' = [issued EXCEPT ![i] =
                    IF out'[i].status = "ok" THEN @ \cup {out'[i].id} ELSE @]
    /\ UNCHANGED <<leaseVars, httpVars, consVars, lifeVars, codecVars>>

TwoGenNext == \E i \in Gens, t \in Clock : TwoGenCall(i, t)

TwoGenSpecInit == TwoGenInit /\ LeaseInit /\ HttpIdle /\ ConsumerInit /\ LifeInit /\ CodecIdle

TwoGenSpec == TwoGenSpecInit /\ [][TwoGenNext]_vars

(***************************************************************************)
(* Claims about the worker-ID lease.                                       *)
(***************************************************************************)
\* a process that is running (it has not crashed)
Live(p) == wpc[p] # "crashed"

\* C1: in every reachable state of the cluster (acquisitions, renewals, TTL
\* expiry, pauses longer than the TTL, releases) no two live processes have the
\* same value as their current worker_id.
C1_UniqueWorkerIds ==
    \A p, q \in Procs :
        (p # q /\ Live(p) /\ Live(q) /\ held_id[p] # -1) => held_id[p] # held_id[q]

\* C2: acquire_worker_id calls of different processes running concurrently, in any
\* interleaving of their SET NX probes, return distinct worker IDs: no two
\* processes hold the same worker ID.
C2_DistinctAcquired ==
    \A p, q \in Procs :
        (p # q /\ held_id[p] # -1 /\ held_id[q] # -1) => held_id[p] # held_id[q]

\* two acquisitions have returned, the second after its probe of candidate 0
\* found the key of the first
C2_Witness ==
    \E p, q \in Procs :
        /\ wpc[p] = "held" /\ wpc[q] = "held"
        /\ held_id[p] = 0
        /\ held_id[q] = 1 /\ cand[q] = 1

(***************************************************************************)
(* Claims about the generator.                                             *)
(***************************************************************************)
\* this step is a step of a generate() call on generator i
CallStepOf(i) == out'[i].turn # out[i].turn

\* C4: the IDs one generator returns are strictly increasing, whatever the clock
\* reads (repeated readings, regressing readings where the call fails, the wait
\* after 4096 IDs in one millisecond): an ID returned by a step is greater than
\* the ID returned most recently before it.
C4_StrictlyIncreasing ==
    [][\A i \in Gens :
          (CallStepOf(i) /\ out'[i].status = "ok")
              => /\ out'[i].id > lastId[i]
                 /\ lastId'[i] = out'[i].id]_vars

\* IDs have been returned in several milliseconds and several times in the last
C4_Witness ==
    /\ out[1].status = "ok"
    /\ parse_id(lastId[1]).timestamp = MaxClock
    /\ parse_id(lastId[1]).sequence > 1

\* C6: a generate() that reads t < last_timestamp fails with the clock-regression
\* error carrying delta = last_timestamp - t, returns no ID and leaves the
\* generator's last_timestamp and sequence as they were.
C6_ClockRegression ==
    [][\A i \in Gens : \A t \in Clock :
          (t < gen[i].last_timestamp /\ CallStepOf(i) /\ GenerateCall(i, t))
              => /\ out'[i].status = "regress"
                 /\ out'[i].delta = gen[i].last_timestamp - t
                 /\ out'[i].id = -1
                 /\ gen'[i] = gen[i]
                 /\ lastId'[i] = lastId[i]]_vars

\* a call has failed on a clock two milliseconds behind, after IDs were returned
C6_Witness ==
    /\ out[1].status = "regress"
    /\ out[1].delta = 2
    /\ lastId[1] # -1
    /\ gen[1].sequence > 0

\* C7: while the clock stays on one millisecond exactly 4096 IDs carry that
\* timestamp, with sequences 0..4095 in order; the call after them returns nothing
\* while the clock reads <= last_timestamp and, once the clock reads more, returns
\* an ID with that strictly greater timestamp and sequence 0.
C7_State ==
    \A i \in Gens :
        /\ sameMs[i] <= MAX_SEQUENCE + 1
        /\ lastId[i] # -1 =>
              /\ parse_id(lastId[i]).sequence = sameMs[i] - 1
              /\ parse_id(lastId[i]).timestamp = gen[i].last_timestamp
        /\ gpc[i] = "spin" =>
              /\ sameMs[i] = MAX_SEQUENCE + 1
              /\ out[i].status = "spin"
              /\ out[i].id = -1

C7_Step ==
    \A i \in Gens : \A t \in Clock :
        /\ (t = gen[i].last_timestamp /\ CallStepOf(i) /\ GenerateCall(i, t))
              => IF sameMs[i] = MAX_SEQUENCE + 1
                 THEN gpc'[i] = "spin" /\ lastId'[i] = lastId[i]
                 ELSE /\ out'[i].status = "ok"
                      /\ parse_id(out'[i].id).timestamp = t
                      /\ sameMs'[i] = sameMs[i] + 1
        /\ (CallStepOf(i) /\ WaitRead(i, t))
              => IF t <= gen[i].last_timestamp
                 THEN gpc'[i] = "spin" /\ lastId'[i] = lastId[i] /\ gen'[i] = gen[i]
                 ELSE /\ out'[i].status = "ok"
                      /\ parse_id(out'[i].id).timestamp = t
                      /\ parse_id(out'[i].id).timestamp > parse_id(lastId[i]).timestamp
                      /\ parse_id(out'[i].id).sequence = 0
                      /\ sameMs'[i] = 1

C8_Layout ==
    \A i \in Gens :
        out[i].status = "ok" =>
            /\ parse_id(out[i].id).worker_id = gen[i].worker_id
            /\ parse_id(out[i].id).sequence = gen[i].sequence
            /\ parse_id(out[i].id).sequence <= MAX_SEQUENCE
            /\ parse_id(out[i].id).timestamp = gen[i].last_timestamp
            /\ parse_id(out[i].id).timestamp >= 0
            /\ out[i].id >= 0
            /\ BitLength(out[i].id) <= TIMESTAMP_BITS + WORKER_ID_BITS + SEQUENCE_BITS
            /\ BitLength(out[i].id) <=
                  BitLength(gen[i].last_timestamp) + WORKER_ID_BITS + SEQUENCE_BITS
                  \/ gen[i].last_timestamp = 0

\* an ID with every field non-zero and the largest worker ID has been returned
C8_Witness ==
    /\ out[1].status = "ok"
    /\ gen[1].worker_id = MAX_WORKER_ID
    /\ gen[1].sequence = MAX_SEQUENCE
    /\ gen[1].last_timestamp > 0

\* C5: generators constructed with distinct worker IDs never return the same ID,
\* whatever clock values either of them reads.
C5_DisjointIds ==
    gen[1].worker_id # gen[2].worker_id => issued[1] \cap issued[2] = {}

\* both generators have returned an ID with the same timestamp and sequence
C5_Witness ==
    /\ gen[1].worker_id # gen[2].worker_id
    /\ \E a \in issued[1], b \in issued[2] :
          /\ parse_id(a).timestamp = parse_id(b).timestamp
          /\ parse_id(a).sequence = parse_id(b).sequence
          /\ parse_id(a).sequence > 0

(***************************************************************************)
(* Claims about the front end.                                             *)
(***************************************************************************)

\* C3: every record inserted by create_short_url has
\* short_code = base62_encode(snowflake_id), i.e. decoding the code gives the
\* ID stored with the record.
C3_CodeEncodesId ==
    \A row \in db :
        /\ row.short_code = base62_encode(row.snowflake_id)
        /\ base62_decode(row.short_code) = row.snowflake_id

\* C9: a GET whose cache read returned u ends with 301 and Location u, and
\* reads the relational store zero times.
C9_CacheHit ==
    \A r \in Reqs :
        (req[r].kind = "redirect" /\ req[r].got # "") =>
            /\ req[r].dbReads = 0
            /\ req[r].pc # "dbread" /\ req[r].pc # "backfill"
            /\ req[r].pc = "done" =>
                   (req[r].status = 301 /\ req[r].location = req[r].got)

C9_Witness ==
    \E r \in Reqs :
        /\ req[r].kind = "redirect" /\ req[r].pc = "done"
        /\ req[r].got \in Urls
        /\ req[r].status = 301 /\ req[r].location = req[r].got
        /\ \E row \in db : row.short_code = req[r].code

\* the URL the relational store holds for a code
UrlOf(code) == (CHOOSE row \in db : row.short_code = code).original_url

\* C10: a GET that found nothing in the cache, while the relational store
\* holds (code, u): the read yields u; the backfill write, when the KV store
\* accepts it, leaves short_url:{code} = u with the default TTL in the
\* cache; and the reply is 301 with Location u.
C10_Step ==
    \A r \in Reqs :
        (req[r].kind = "redirect" /\ req[r].got = ""
            /\ req'[r].pc # req[r].pc
            /\ \E row \in db : row.short_code = req[r].code) =>
            /\ req[r].pc = "dbread" =>
                   (req'[r].pc = "backfill" /\ req'[r].url = UrlOf(req[r].code))
            /\ (req[r].pc = "backfill" /\ req'[r].pc = "analytics") =>
                   /\ [code |-> req[r].code, url |-> UrlOf(req[r].code),
                        ttl |-> DEFAULT_TTL] \in cache'
                   /\ CacheGet(cache', req[r].code) = UrlOf(req[r].code)
            /\ req[r].pc = "analytics" =>
                   /\ req'[r].status = 301
                   /\ req'[r].location = UrlOf(req[r].code)

C11_State ==
    \A r \in Reqs :
        req[r].status = 404 =>
            /\ req[r].pc = "done" /\ req[r].location = ""
            /\ r \notin tasks /\ r \notin bus

C11_Step ==
    \A r \in Reqs :
        (req[r].kind = "redirect" /\ req[r].got = "" /\ req[r].pc = "dbread"
            /\ req'[r].pc # "dbread"
            /\ ~ \E row \in db : row.short_code = req[r].code) =>
            /\ req'[r].pc = "done" /\ req'[r].status = 404
            /\ cache' = cache /\ db' = db /\ tasks' = tasks /\ bus' = bus

C11_NotFound == [](C11_State) /\ [][C11_Step]_vars

C11_Witness ==
    \E r \in Reqs :
        /\ req[r].kind = "redirect" /\ req[r].pc = "done"
        /\ req[r].status = 404 /\ req[r].dbReads = 1
        /\ db # {} /\ cache # {}

\* C12: a failure inside the event publish never changes the status or the
\* Location of a redirect, after a cache hit or after a database hit: the
\* response is the 301 to the resolved URL before the publish task runs, and
\* the task's end, published or failed, leaves every response as it was.
C12_State ==
    \A r \in tasks \cup bus :
        /\ req[r].kind = "redirect" /\ req[r].pc = "done"
        /\ req[r].status = 301 /\ req[r].location = req[r].url
        /\ req[r].url # ""

C12_Step ==
    \A r \in Reqs : (r \in tasks /\ r \notin tasks') => req' = req

C12_PublishIsolated == [](C12_State) /\ [][C12_Step]_vars

\* a redirect after a cache hit, answered with a publisher at hand (no
\* connection attempt), whose publish task has failed
C12_Witness ==
    \E r \in Reqs :
        /\ req[r].status = 301 /\ req[r].busWaits = 0 /\ req[r].got # ""
        /\ req[r].location = req[r].got
        /\ publisher = "ready" /\ r \notin tasks /\ r \notin bus

\* C13: after the publisher's startup has failed (analytics_publisher is
\* None, which it is only while startup and every later attempt have
\* failed), a redirect is answered with its 301 and Location without waiting
\* on a bus operation, schedules no event, and leaves the publisher disabled.
C13_Step ==
    \A r \in Reqs :
        (publisher = "none" /\ req[r].kind = "redirect"
            /\ req[r].pc = "analytics" /\ req'[r].pc = "done") =>
            /\ req'[r].status = 301 /\ req'[r].location = req[r].url
            /\ req'[r].busWaits = 0
            /\ r \notin tasks'
            /\ publisher' = "none"

C13_DisabledPublisher == [][C13_Step]_vars

\* C14: a GET that missed the cache and read (code, u) from the relational
\* store is answered 301 with Location u, also when the backfill write to
\* the cache has failed.
C14_BackfillFailureSwallowed ==
    \A r \in Reqs :
        (req[r].kind = "redirect" /\ req[r].got = "" /\ req[r].url # ""
            /\ req[r].pc = "done") =>
            (req[r].status = 301 /\ req[r].location = req[r].url)

\* C15: a shorten whose record has been committed is answered 200 with its
\* short code and URL, also when the cache-priming write has failed.
C15_PrimeFailureLogOnly ==
    \A r \in Reqs :
        (req[r].kind = "shorten" /\ req[r].pc = "done"
            /\ [snowflake_id |-> req[r].sid, original_url |-> req[r].url,
                 short_code |-> req[r].code] \in db) =>
            req[r].status = 200

\* C16: once a shorten of url has committed and returned its code, every GET
\* of that code resolves: a cache hit gives url; a miss pays one read of the
\* relational store, repairs the cache entry and then, like the hit, is
\* answered 301 with Location url.
C16_Step ==
    \A q, r \in Reqs :
        (req[q].kind = "shorten" /\ req[q].status = 200
            /\ req'[r].kind = "redirect" /\ req'[r].code = req[q].code
            /\ req'[r].pc # req[r].pc) =>
            /\ req[r].pc = "new" =>
                   (req'[r].got = "" \/ req'[r].got = req[q].url)
            /\ req[r].pc = "dbread" =>
                   (req'[r].pc = "backfill" /\ req'[r].dbReads = 1)
            /\ req[r].pc = "backfill" =>
                   /\ req'[r].pc = "analytics"
                   /\ CacheGet(cache', req[q].code) = req[q].url
            /\ req[r].pc = "analytics" =>
                   /\ req'[r].status = 301 /\ req'[r].location = req[q].url
                   /\ req'[r].dbReads = IF req[r].got = "" THEN 1 ELSE 0

C16_AlwaysResolves == [][C16_Step]_vars

\* C17: every cache entry short_url:{code} = u is the projection of a
\* committed record (code, u) of the relational store, whatever shorten and
\* redirect requests, failed ones included, have run.
C17_CacheProjectsStore ==
    \A e \in cache :
        \E row \in db : row.short_code = e.code /\ row.original_url = e.url

\* a cache entry written by a backfill, beside a failed request
C17_Witness ==
    /\ cache # {}
    /\ \E r, q \in Reqs :
          /\ req[r].kind = "shorten" /\ req[r].status = 500
          /\ [snowflake_id |-> req[r].sid, original_url |-> req[r].url,
               short_code |-> req[r].code] \in db
          /\ req[q].kind = "redirect" /\ req[q].status = 301 /\ req[q].got = ""

(***************************************************************************)
(* Claims about the event consumer.                                        *)
(***************************************************************************)

\* C18: with a consumer running without faults on an initially empty table,
\* every click event published to the queue eventually has at least one
\* row in the table; N published events so end in at least N rows.
C18_AtLeastOnce ==
    \A e \in Events : (e \in published) ~> (click_events[e] >= 1)

C18_Witness ==
    /\ published = Events
    /\ \A e \in Events : click_events[e] >= 1 /\ [ev |-> e, body |-> "event"] \in acked
    /\ queue = <<>> /\ cpc = "wait"

\* C19: a message whose payload fails JSON decoding is never acknowledged:
\* every acknowledged message is one whose body was decoded.
C19_DecodeFailureNotAcked ==
    \A message \in acked : Decode(message.body) # "JSONDecodeError"

\* C20: when the append of the row fails, the message is not acknowledged
\* and is back in the queue, to be delivered again.
C20_Step ==
    (cpc = "insert" /\ cpc' # "insert" /\ click_events' = click_events) =>
        /\ cur \notin acked'
        /\ \E i \in 1..Len(queue') : queue'[i] = cur

C20_InsertFailureRequeues == [][C20_Step]_vars

\* C21: a decode failure or an insert failure on one message does not end
\* the consumer's loop: after the step of the failure the consumer is
\* waiting for the next message.
C21_Step ==
    /\ (cpc = "wait" /\ queue # <<>> /\ queue' = Tail(queue)
          /\ Decode(Head(queue).body) = "JSONDecodeError") => cpc' = "wait"
    /\ (cpc = "insert" /\ cpc' # "insert" /\ click_events' = click_events) =>
          cpc' = "wait"

C21_FailuresArePerMessage == [][C21_Step]_vars

\* C22: when the consumer stops holding messages it has received and not
\* acknowledged, all of them go back to the queue, none acknowledged, and
\* after the restart each of them eventually has at least one row in the
\* table (more than one where the row was written before the stop).
C22_Step ==
    (cpc # "down" /\ cpc' = "down") =>
        /\ queue' = Unacked
        /\ acked' = acked
        /\ \A i \in 1..Len(Unacked) : Unacked[i].ev \in redelivered'

C23_Step ==
    \A p \in Procs :
        (wpc[p] = "held" /\ rtask[p] = "reacquire" /\ rtask'[p] = "sleep"
            /\ lease[held_id[p]] > 0) =>
            (wpc'[p] # "held" \/ held_id'[p] # held_id[p])

C23_LeaseLostNotSilent == [][C23_Step]_vars

\* C24: a transport failure during a renewal attempt does not end renewal:
\* a manager that holds a worker ID always has a renewal task that renews.
C24_RenewalSurvivesFailure ==
    \A p \in Procs : wpc[p] = "held" => rtask[p] \in {"sleep", "reacquire"}

(***************************************************************************)
(* C25: release_worker_id cancels the renewal task before it deletes the   *)
(* lease key, and leaves the manager Unleased (worker_id None, no renewal  *)
(* task); once it has completed, no step creates or extends a key unless a *)
(* process that is acquiring or holding that key exists, and a second call *)
(* changes neither the lease store nor the manager.                        *)
(***************************************************************************)
C25_State ==
    \A p \in Procs :
        /\ wpc[p] = "releasing" => rtask[p] = "none"
        /\ wpc[p] = "stopped" => held_id[p] = -1 /\ rtask[p] = "none"

C25_Step ==
    /\ \A p \in Procs :
          /\ (wpc[p] = "releasing" /\ wpc'[p] = "stopped") =>
                lease' = [lease EXCEPT ![held_id[p]] = 0]
          /\ (~released_again[p] /\ released_again'[p]) =>
                /\ lease' = lease
                /\ <<wpc'[p], held_id'[p], rtask'[p], timer'[p]>> =
                       <<wpc[p], held_id[p], rtask[p], timer[p]>>
          /\ wpc[p] = "stopped" => wpc'[p] = "stopped"
    /\ \A n \in Slots :
          lease'[n] > lease[n] =>
              \E q \in Procs :
                  \/ wpc[q] = "acquiring" /\ cand[q] = n
                  \/ wpc[q] = "held" /\ held_id[q] = n

C25_ReleaseIsFinal == []C25_State /\ [][C25_Step]_vars

\* a process has released and called release again while another process
\* holds a live lease
C25_Witness ==
    \E p, q \in Procs :
        /\ wpc[p] = "stopped" /\ released_again[p]
        /\ wpc[q] = "held" /\ lease[held_id[q]] > 0

(***************************************************************************)
(* C26: on shutdown the publisher is closed first, then the worker-ID      *)
(* lease is released, then the KV client is closed: whenever the release   *)
(* has begun, the publisher has been closed.                               *)
(***************************************************************************)
C26_PublisherClosedFirst ==
    \A p \in Procs :
        wpc[p] \in {"releasing", "stopped"} =>
            Len(closed[p]) >= 1 /\ closed[p][1] = "publisher"

(***************************************************************************)
(* C27: for every integer n >= 0, base62_decode(base62_encode(n)) = n.     *)
(***************************************************************************)
C27_DecodeInvertsEncode ==
    (codec.op = "encode" /\ codec.step = 2) => codec.num = codec.in_num

\* a number of several digits with a zero digit inside went round
C27_Witness ==
    /\ codec.op = "encode" /\ codec.step = 2
    /\ codec.in_num = 3844
    /\ codec.str = <<"1", "0", "0">>
    /\ codec.num = 3844

(***************************************************************************)
(* C28: for every canonical string s over the Base62 alphabet (no leading  *)
(* zero symbol unless s is exactly the zero symbol),                       *)
(* base62_encode(base62_decode(s)) = s.                                    *)
(***************************************************************************)
C28_EncodeInvertsDecode ==
    (codec.op = "decode" /\ codec.step = 2 /\ Canonical(codec.in_str)) =>
        codec.str = codec.in_str

\* a canonical two-symbol string went round
C28_Witness ==
    /\ codec.op = "decode" /\ codec.step = 2
    /\ codec.in_str = <<"a", "Z">>
    /\ codec.num = 10 * 62 + 61
    /\ codec.str = <<"a", "Z">>

(***************************************************************************)
(* C29: acquire_worker_id probes the candidates in ascending order from 0  *)
(* with set-if-absent, passes over a candidate only when its key was       *)
(* present, and returns the first candidate whose key was absent; on       *)
(* return that key exists with TTL WORKER_ID_LEASE_TTL, the manager's      *)
(* worker_id is the candidate and the renewal task is running.             *)
(***************************************************************************)
C29_Step ==
    \A p \in Procs :
        /\ (wpc[p] = "unleased" /\ wpc'[p] = "acquiring") => cand'[p] = 0
        /\ (wpc[p] = "acquiring" /\ cand'[p] # cand[p]) =>
              /\ cand'[p] = cand[p] + 1
              /\ lease[cand[p]] > 0
              /\ wpc'[p] = "acquiring"
        /\ (wpc[p] = "acquiring" /\ wpc'[p] = "held") =>
              /\ lease[cand[p]] = 0
              /\ lease' = [lease EXCEPT ![cand[p]] = WORKER_ID_LEASE_TTL]
              /\ held_id'[p] = cand[p]
              /\ rtask'[p] = "sleep"

C29_FirstAbsentCandidate == [][C29_Step]_vars

\* a process passed over a leased candidate 0 and holds candidate 1
C29_Witness ==
    \E p, q \in Procs :
        /\ p # q
        /\ wpc[q] = "held" /\ held_id[q] = 0 /\ lease[0] > 0
        /\ wpc[p] = "held" /\ held_id[p] = 1 /\ cand[p] = 1
        /\ lease[1] = WORKER_ID_LEASE_TTL /\ rtask[p] = "sleep"

(***************************************************************************)
(* C30: when every candidate key is present as it is probed,               *)
(* acquire_worker_id fails (and with it startup): the manager stays        *)
(* Unleased with no renewal task, and the failed probes leave every lease  *)
(* key and its TTL as they were.                                           *)
(***************************************************************************)
C30_State ==
    \A p \in Procs : wpc[p] = "failed" => held_id[p] = -1 /\ rtask[p] = "none"

C30_Step ==
    \A p \in Procs :
        /\ (wpc[p] = "acquiring" /\ wpc'[p] = "failed") =>
              /\ cand[p] = SETTINGS_MAX_WORKER_ID
              /\ lease[cand[p]] > 0
              /\ lease' = lease
        /\ (wpc[p] = "acquiring" /\ cand'[p] # cand[p]) => lease' = lease
        /\ (wpc[p] = "acquiring" /\ cand[p] = SETTINGS_MAX_WORKER_ID
               /\ lease[cand[p]] > 0 /\ wpc'[p] \notin {"acquiring", "crashed"}) =>
              wpc'[p] = "failed"
        /\ wpc[p] = "failed" => wpc'[p] = "failed"

C30_AllLeasedFails == []C30_State /\ [][C30_Step]_vars

\* an acquisition has failed while every key is present with a TTL that has
\* run down since it was set
C30_Witness ==
    \E p \in Procs :
        /\ wpc[p] = "failed"
        /\ \A n \in Slots : lease[n] > 0 /\ lease[n] < WORKER_ID_LEASE_TTL

(***************************************************************************)
(* C32: POST /shorten with a missing or malformed body, or with a URL that *)
(* is not an HTTP(S) URL with a host, is answered 422 and changes nothing: *)
(* the generator, the relational store and the cache are as before.  (A    *)
(* shorten request whose url is still empty after its first step is one    *)
(* that validation turned away.)                                           *)
(***************************************************************************)
C32_Step ==
    \A r \in Reqs :
        (req[r].pc = "new" /\ req'[r].kind = "shorten" /\ req'[r].url = "") =>
            /\ req'[r].status = 422
            /\ req'[r].pc = "done"
            /\ id_generator' = id_generator /\ db' = db /\ cache' = cache

C32_InvalidInputIs422 == [][C32_Step]_vars

(***************************************************************************)
(* C33: a successful shorten returns the short_code of the record it       *)
(* inserted, short_url = BASE_URL without trailing slash + "/" +           *)
(* short_code, and original_url equal to the URL submitted in that         *)
(* request; so does each of several consecutive calls.                     *)
(***************************************************************************)
C33_ReplyEchoesRequest ==
    \A r \in Reqs :
        (req[r].kind = "shorten" /\ req[r].status = 200) =>
            /\ req[r].body.short_code = req[r].code
            /\ \E row \in db : row.short_code = req[r].body.short_code
            /\ req[r].body.short_url =
                   RStripSlash(BASE_URL) \o <<"/">> \o req[r].body.short_code
            /\ req[r].body.original_url = req[r].sent

(***************************************************************************)
(* C34: within one process, whatever the interleaving of the shorten       *)
(* requests it is serving, each generate() call leaves in the generator    *)
(* the (last_timestamp, sequence) of the ID it returned, and no two        *)
(* requests get the same ID or the same short code.                        *)
(***************************************************************************)
C34_State ==
    \A q, r \in Reqs :
        (q # r /\ req[q].kind = "shorten" /\ req[r].kind = "shorten"
            /\ req[q].sid # -1 /\ req[r].sid # -1) =>
            /\ req[q].sid # req[r].sid
            /\ req[q].code # req[r].code
            /\ req[q].sid # base62_decode(req[r].code)

C34_Step ==
    \A r \in Reqs :
        (req[r].pc = "new" /\ req'[r].kind = "shorten" /\ req'[r].sid # -1) =>
            /\ req'[r].sid # base62_decode(req'[r].code)
            /\ base62_decode(req'[r].code) =
                   BuildId(id_generator'.last_timestamp, id_generator'.worker_id,
                           id_generator'.sequence)

C34_SerialisedGenerator == []C34_State /\ [][C34_Step]_vars

\* two shorten requests in their handlers at once, both between the generator
\* and the reply
C34_Witness ==
    \E q, r \in Reqs :
        /\ q # r
        /\ req[q].kind = "shorten" /\ req[q].pc = "prime"
        /\ req[r].kind = "shorten" /\ req[r].pc = "commit"
        /\ req[q].sid # req[r].sid /\ req[q].code # req[r].code

(***************************************************************************)
(* C37: within one shorten request the insert is committed before the      *)
(* cache is primed, and the reply is produced after both: a request        *)
(* reaches the cache write only by the step that commits its record, is    *)
(* answered 200 only by the step that writes its cache entry, and every    *)
(* 200 reply carries the code of a committed record.                       *)
(***************************************************************************)
C37_State ==
    \A r \in Reqs :
        (req[r].kind = "shorten" /\ (req[r].pc = "prime" \/ req[r].status = 200)) =>
            [snowflake_id |-> req[r].sid, original_url |-> req[r].url,
             short_code |-> req[r].code] \in db

C37_Step ==
    \A r \in Reqs :
        /\ (req'[r].kind = "shorten" /\ req'[r].pc = "prime" /\ req[r].pc # "prime") =>
              /\ req[r].pc = "commit"
              /\ cache' = cache
              /\ \E row \in db' \ db : row.short_code = req[r].code
        /\ (req'[r].kind = "shorten" /\ req'[r].status = 200 /\ req[r].status # 200) =>
              /\ req[r].pc = "prime"
              /\ db' = db
              /\ \E row \in db : row.short_code = req'[r].body.short_code
              /\ CacheGet(cache', req[r].code) = req[r].url

C37_CommitPrimeReply == []C37_State /\ [][C37_Step]_vars

\* a shorten request answered 200, its record committed and its entry cached
C37_Witness ==
    \E r \in Reqs :
        /\ req[r].kind = "shorten" /\ req[r].status = 200
        /\ req[r].body.short_code = req[r].code
        /\ CacheGet(cache, req[r].code) = req[r].url

(***************************************************************************)
(* C31: when the insert of a shorten fails on a uniqueness violation (the  *)
(* ID or the code is already there), the request ends with a server error, *)
(* no new ID is taken for a retry, the records are as they were and no     *)
(* cache entry is written.                                                 *)
(***************************************************************************)
C31_Step ==
    \A r \in Reqs :
        (req[r].kind = "shorten" /\ req[r].pc = "commit" /\ req'[r].pc # "commit"
            /\ Conflicts(db, [snowflake_id |-> req[r].sid, original_url |-> req[r].url,
                              short_code |-> req[r].code])) =>
            /\ req'[r].pc = "done" /\ req'[r].status = 500
            /\ id_generator' = id_generator
            /\ db' = db
            /\ cache' = cache

C35_Step == bus \subseteq bus'

C35_EventsSurviveRestart == [][C35_Step]_vars

(***************************************************************************)
(* C40: when several resolves of one code, absent from the cache and       *)
(* present in the relational store, run concurrently, each of them is      *)
(* answered 301 with the record's URL.                                     *)
(***************************************************************************)
C40_ConcurrentMisses ==
    \A q, r \in Reqs :
        (q # r /\ req[q].kind = "redirect" /\ req[r].kind = "redirect"
            /\ req[q].code = req[r].code
            /\ req[q].dbReads = 1 /\ req[r].dbReads = 1
            /\ req[q].url # "" /\ req[r].url # ""
            /\ req[q].pc = "done" /\ req[r].pc = "done") =>
            /\ req[q].status = 301 /\ req[q].location = UrlOf(req[q].code)
            /\ req[r].status = 301 /\ req[r].location = UrlOf(req[r].code)

(***************************************************************************)
(* C36: a renewal (EXPIRE) and a release (DEL) by a process act only on a  *)
(* lease key that this process created and still owns: when the key of its *)
(* worker ID is one that another process created after its own expired,    *)
(* its renewal does not extend that key and its release does not delete    *)
(* it.                                                                     *)
(***************************************************************************)
C36_Step ==
    \A p \in Procs :
        /\ (wpc[p] = "held" /\ rtask[p] = "sleep" /\ timer[p] = 0
               /\ timer'[p] = WORKER_ID_RENEWAL_INTERVAL
               /\ owner[held_id[p]] \notin {0, p}) =>
              lease'[held_id[p]] = lease[held_id[p]]
        /\ (wpc[p] = "releasing" /\ wpc'[p] = "stopped"
               /\ owner[held_id[p]] \notin {0, p}) =>
              lease'[held_id[p]] = lease[held_id[p]]

C36_OnlyOwnKey == [][C36_Step]_vars

(***************************************************************************)
(* C38: while a process is Held(n) and renews on time (every               *)
(* WORKER_ID_RENEWAL_INTERVAL < WORKER_ID_LEASE_TTL, the KV store          *)
(* reachable, the process not paused), its key never expires and no other  *)
(* process acquires n.                                                     *)
(***************************************************************************)
C38_HeldKeyStaysAlive ==
    \A p \in Procs :
        wpc[p] = "held" =>
            /\ lease[held_id[p]] > 0
            /\ \A q \in Procs \ {p} : wpc[q] = "held" => held_id[q] # held_id[p]

(***************************************************************************)
(* C39: if a process crashes while Held(n), without release and without    *)
(* further renewals, the key it created eventually expires, so that n can  *)
(* be acquired again.                                                      *)
(***************************************************************************)
C39_CrashedLeaseExpires ==
    \A p \in Procs : \A n \in Slots :
        (wpc[p] = "crashed" /\ held_id[p] = n /\ owner[n] = p) ~> (owner[n] # p)

====
